---- MODULE Spec2Model ----
(***************************************************************************)
(* A model of secure-shell-server: the policy of pkg/config                *)
(* (ShellCommandConfig: defaults, JSON decoding, IsCommandAllowed,         *)
(* AddAllowedCommand) and the SafeRunner of pkg/runner (Run, RunScript,    *)
(* RunScriptFile), with the launched process, the clock and the audit      *)
(* trail of the call in flight.                                            *)
(***************************************************************************)
EXTENDS Integers, Sequences, FiniteSets, TLC

VARIABLES
    file,      \* the policy file on disk, as LoadConfigFromFile will read it
    stage,     \* "start" | "failed" (load error) | "configured" | "ready" (runner built)
    config,    \* the ShellCommandConfig the process holds
    origin,    \* which constructor made config: "none" | "default" | "file"
    runner,    \* the SafeRunner's own settings: WorkingDir, RestrictedEnv
    now,       \* the clock, in seconds
    call,      \* the top-level Run / RunScript call in flight
    proc,      \* the operating-system process launched by command.Run()
    trace,     \* what the call in flight did so far, in program order
    sinks      \* bytes delivered to the caller's stdout / stderr writers by this call

vars == <<file, stage, config, origin, runner, now, call, proc, trace, sinks>>

(***************************************************************************)
(* Bounds of the model.                                                    *)
(***************************************************************************)
MaxRules == 2        \* allowCommands entries in a policy file
MaxDeny == 1         \* denyCommands entries in a policy file
MaxRawNumber == 2    \* largest maxExecutionTime / maxOutputSize written in a file
MaxTime == 2         \* the clock stops here
MaxScript == 2       \* simple commands in a script
MaxBytes == 2        \* bytes a call delivers to one sink

(***************************************************************************)
(* Program constants.                                                      *)
(***************************************************************************)
DefaultExecutionTimeout == 30
DefaultMaxOutputSize == 50 * 1024
DefaultErrorMessage == "Command not allowed by security policy"

Commands == {"ls", "rm"}

Min(a, b) == IF a <= b THEN a ELSE b

SeqsUpTo(S, n) == UNION {[1..k -> S] : k \in 0..n}

(***************************************************************************)
(* The policy: DenyCommand, AllowCommand, ShellCommandConfig.              *)
(***************************************************************************)
DenyCommand(cmd, msg) == [Command |-> cmd, Message |-> msg]

AllowCommand(cmd, subs, denySubs) ==
    [Command |-> cmd, SubCommands |-> subs, DenySubCommands |-> denySubs]

\* The zero value of the struct, before any constructor ran.
ZeroConfig ==
    [AllowedDirectories  |-> <<>>,
     AllowCommands       |-> <<>>,
     DenyCommands        |-> <<>>,
     DefaultErrorMessage |-> "",
     BlockLogPath        |-> "",
     MaxExecutionTime    |-> 0,
     MaxOutputSize       |-> 0]

DefaultConfig ==
    [AllowedDirectories  |-> << <<"home">>, <<"tmp">> >>,
     AllowCommands       |-> << AllowCommand("ls", <<>>, <<>>),
                                AllowCommand("cat", <<>>, <<>>),
                                AllowCommand("echo", <<>>, <<>>) >>,
     DenyCommands        |-> << DenyCommand("rm", "Remove command is not allowed") >>,
     DefaultErrorMessage |-> DefaultErrorMessage,
     BlockLogPath        |-> "",
     MaxExecutionTime    |-> DefaultExecutionTimeout,
     MaxOutputSize       |-> DefaultMaxOutputSize]

(***************************************************************************)
(* A policy file.  A field that may be absent is a sequence of length 0    *)
(* (absent) or 1 (present).  A list entry is a bare string, an object, or  *)
(* something that is neither (a number), which the decoder refuses.        *)
(***************************************************************************)
Absent == <<>>
Some(x) == <<x>>

StringEntry(cmd) == [kind |-> "string", command |-> cmd, subCommands |-> <<>>,
                     denySubCommands |-> <<>>, message |-> ""]
AllowObject(cmd, subs, denySubs) ==
    [kind |-> "object", command |-> cmd, subCommands |-> subs,
     denySubCommands |-> denySubs, message |-> ""]
DenyObject(cmd, msg) == [kind |-> "object", command |-> cmd, subCommands |-> <<>>,
                         denySubCommands |-> <<>>, message |-> msg]
NumberEntry == [kind |-> "number", command |-> "", subCommands |-> <<>>,
                denySubCommands |-> <<>>, message |-> ""]

AllowEntries ==
    {StringEntry(c) : c \in Commands}
        \cup {AllowObject("ls", <<"-l">>, <<>>), NumberEntry}
DenyEntries == {StringEntry("rm"), DenyObject("rm", "no rm")}
RawNumbers == {Absent} \cup {Some(n) : n \in -1..MaxRawNumber}
DirLists == {<<>>, << <<"home">>, <<"tmp">> >>}

WellFormedFiles ==
    [readable          : {TRUE},
     wellFormed        : {TRUE},
     allowedDirectories: DirLists,
     allowCommands     : {Absent} \cup {Some(l) : l \in SeqsUpTo(AllowEntries, MaxRules)},
     denyCommands      : {Absent} \cup {Some(l) : l \in SeqsUpTo(DenyEntries, MaxDeny)},
     maxExecutionTime  : RawNumbers,
     maxOutputSize     : RawNumbers]

\* A file that cannot be read, and one that is not JSON.
UnreadableFile ==
    [readable |-> FALSE, wellFormed |-> FALSE, allowedDirectories |-> <<>>,
     allowCommands |-> Absent, denyCommands |-> Absent,
     maxExecutionTime |-> Absent, maxOutputSize |-> Absent]
MalformedFile == [UnreadableFile EXCEPT !.readable = TRUE]

Files == WellFormedFiles \cup {UnreadableFile, MalformedFile}

\* The files the runner is explored with: they allow ls, or ls and rm, deny rm,
\* and set short limits (NewDefaultConfig supplies the default ones).
PolicyFiles ==
    {f \in WellFormedFiles :
        /\ f.allowedDirectories = << <<"home">>, <<"tmp">> >>
        /\ f.allowCommands \in {Some(<<StringEntry("ls")>>),
                                 Some(<<StringEntry("ls"), StringEntry("rm")>>)}
        /\ f.denyCommands = Some(<<StringEntry("rm")>>)
        /\ f.maxExecutionTime = Some(2)
        /\ f.maxOutputSize = Some(1)}

(***************************************************************************)
(* Decoding.  Each decoder returns [err, value].                           *)
(***************************************************************************)
\* json.Unmarshal of an int field tagged omitempty: an absent key leaves 0.
RawInt(field) == IF field = Absent THEN 0 ELSE field[1]

UnmarshalAllowCommands(data) ==
    IF data = Absent
    THEN [err |-> TRUE, value |-> <<>>]
    ELSE LET rawCommands == data[1]
         IN IF \E i \in DOMAIN rawCommands : rawCommands[i].kind = "number"
            THEN [err |-> TRUE, value |-> <<>>]
            ELSE [err |-> FALSE,
                  value |-> [i \in DOMAIN rawCommands |->
                      IF rawCommands[i].kind = "string"
                      THEN AllowCommand(rawCommands[i].command, <<>>, <<>>)
                      ELSE AllowCommand(rawCommands[i].command,
                                        rawCommands[i].subCommands,
                                        rawCommands[i].denySubCommands)]]

UnmarshalDenyCommands(data) ==
    IF data = Absent
    THEN [err |-> TRUE, value |-> <<>>]
    ELSE LET rawCommands == data[1]
         IN IF \E i \in DOMAIN rawCommands : rawCommands[i].kind = "number"
            THEN [err |-> TRUE, value |-> <<>>]
            ELSE [err |-> FALSE,
                  value |-> [i \in DOMAIN rawCommands |->
                      IF rawCommands[i].kind = "string"
                      THEN DenyCommand(rawCommands[i].command, "")
                      ELSE DenyCommand(rawCommands[i].command,
                                       rawCommands[i].message)]]

\* Zero taken for a given value.
LoadedExecutionTimeNonNegative(raw) == IF raw >= 0 THEN raw ELSE DefaultExecutionTimeout

LoadedExecutionTime(raw) == IF raw > 0 THEN raw ELSE DefaultExecutionTimeout

LoadedOutputSize(raw) == IF raw > 0 THEN raw ELSE DefaultMaxOutputSize

\* func (c *ShellCommandConfig) UnmarshalJSON: the files of the model set neither
\* defaultErrorMessage nor blockLogPath.
UnmarshalJSON(data) ==
    LET allowCommands == UnmarshalAllowCommands(data.allowCommands)
        denyCommands  == UnmarshalDenyCommands(data.denyCommands)
    IN IF ~data.wellFormed \/ allowCommands.err \/ denyCommands.err
       THEN [err |-> TRUE, value |-> ZeroConfig]
       ELSE [err |-> FALSE,
             value |->
               [AllowedDirectories  |-> data.allowedDirectories,
                AllowCommands       |-> allowCommands.value,
                DenyCommands        |-> denyCommands.value,
                DefaultErrorMessage |-> DefaultErrorMessage,
                BlockLogPath        |-> "",
                MaxExecutionTime    |-> LoadedExecutionTime(RawInt(data.maxExecutionTime)),
                MaxOutputSize       |-> LoadedOutputSize(RawInt(data.maxOutputSize))]]

IsCommandAllowed(c, cmd) ==
    \E i \in DOMAIN c.AllowCommands : c.AllowCommands[i].Command = cmd

\* The rule appended without looking for the command first.
AddAllowedCommandAlways(c, cmd) ==
    [c EXCEPT !.AllowCommands = Append(@, AllowCommand(cmd, <<>>, <<>>))]

AddAllowedCommandTo(c, cmd) ==
    IF ~IsCommandAllowed(c, cmd)
    THEN [c EXCEPT !.AllowCommands = Append(@, AllowCommand(cmd, <<>>, <<>>))]
    ELSE c

(***************************************************************************)
(* The runner.  r.config of runner.go is read for IsCommandAllowed,        *)
(* MaxExecutionTime, RestrictedEnv and WorkingDir; the last two are kept   *)
(* in the variable runner.  A directory is its sequence of path            *)
(* components, <<>> being the unset WorkingDir "".  An environment is a    *)
(* set of "k=v" strings.                                                   *)
(***************************************************************************)
ZeroRunner == [WorkingDir |-> <<>>, RestrictedEnv |-> {}]

WorkingDirs == {<<>>, <<"home">>, <<"etc">>}
RestrictedEnvs == {{}, {"PATH=/bin"}}

\* os.Environ() of the server process.
AmbientEnv == {"HOME=/root", "SECRET=token"}

\* The server's own working directory, which a command with Dir "" runs in.
ServerDir == <<"srv">>

\* A context.Context: its deadline, when it has one.
Background == [hasDeadline |-> FALSE, deadline |-> 0]

Expired(ctx, t) == ctx.hasDeadline /\ t >= ctx.deadline

\* context.WithTimeout(parent, d) at time t: the earlier of the two deadlines.
WithTimeout(parent, t, d) ==
    [hasDeadline |-> TRUE,
     deadline    |-> IF parent.hasDeadline THEN Min(parent.deadline, t + d) ELSE t + d]

\* The timeout of Run derived from a fresh context instead of the one given.
RunContextDetached(ctx, t, c) ==
    IF c.MaxExecutionTime > 0 THEN WithTimeout(Background, t, c.MaxExecutionTime) ELSE ctx

\* "Create a timeout context if MaxExecutionTime is set", in Run and in RunScript.
RunContext(ctx, t, c) ==
    IF c.MaxExecutionTime > 0 THEN WithTimeout(ctx, t, c.MaxExecutionTime) ELSE ctx

ScriptContext(ctx, t, c) ==
    IF c.MaxExecutionTime > 0 THEN WithTimeout(ctx, t, c.MaxExecutionTime) ELSE ctx

\* command.Env: set only when RestrictedEnv is not empty; a nil Env makes
\* os/exec pass the server's own environment.
CommandEnv(r) ==
    IF Cardinality(r.RestrictedEnv) > 0 THEN r.RestrictedEnv ELSE AmbientEnv

\* command.Dir: set only when WorkingDir is not ""; an empty Dir makes os/exec
\* run the command in the server's directory.
CommandDir(r) == IF r.WorkingDir # <<>> THEN r.WorkingDir ELSE ServerDir

\* interp.Env(expand.ListEnviron(envPairs...)): the pairs and nothing else.
InterpEnv(r) == r.RestrictedEnv

NoCall == [kind |-> "none", ctx |-> Background, script |-> <<>>, failed |-> FALSE,
           start |-> 0, env |-> {}]

NoProc == [running |-> FALSE, cmd |-> "", env |-> {}, dir |-> <<>>,
           ctx |-> Background, started |-> 0]

NoOutput == [stdout |-> 0, stderr |-> 0]

Streams == {"stdout", "stderr"}

(***************************************************************************)
(* The events of a call, in program order.                                 *)
(*   Run, RunScript, RunScriptFile   the function was entered              *)
(*   check             IsCommandAllowed(args[0]) returned ok               *)
(*   LogCommandAttempt logger.LogCommandAttempt(cmd, args[1:], ok)         *)
(*   LogErrorf         logger.LogErrorf(...)                               *)
(*   validate          validator.ValidateScript returned; ok: valid, no err*)
(*   parse             parser.Parse returned; ok: no error                 *)
(*   launch            command.Run() started the process                   *)
(*   kill              the context was done and os/exec killed the process *)
(*   return            the function named in cmd returned; ok: nil error   *)
(***************************************************************************)
Event(ev, cmd, args, ok) == [ev |-> ev, cmd |-> cmd, args |-> args, ok |-> ok]

Vectors == {<<"ls">>, <<"ls", "-l">>, <<"rm">>}
ScriptVectors == {<<"ls">>, <<"rm">>}
Scripts == SeqsUpTo(ScriptVectors, MaxScript)

\* The branch never taken: every command goes on to be launched.
RefusesNothing(allowed) == FALSE

\* if !r.config.IsCommandAllowed(cmd): the branch taken on the decision.
Refuses(allowed) == ~allowed

\* Only the allowed attempts are logged.
AttemptLogAllowedOnly(cmd, rest, allowed) ==
    IF allowed THEN <<Event("LogCommandAttempt", cmd, rest, allowed)>> ELSE <<>>

\* r.logger.LogCommandAttempt(cmd, args[1:], false) and (..., true).
AttemptLog(cmd, rest, allowed) == <<Event("LogCommandAttempt", cmd, rest, allowed)>>

\* func (r *SafeRunner) Run, up to the start of the process: what it logs, the
\* process it starts and whether it already returned an error.  starts: whether
\* the operating system can start the program at all.
RunEntry(ctx, args, starts) ==
    IF Len(args) = 0
    THEN [events |-> <<Event("Run", "", <<>>, TRUE), Event("return", "Run", <<>>, FALSE)>>,
          proc |-> NoProc, err |-> TRUE]
    ELSE LET cmd     == args[1]
             rest    == Tail(args)
             allowed == IsCommandAllowed(config, cmd)
             head    == <<Event("Run", cmd, rest, TRUE),
                          Event("check", cmd, rest, allowed)>>
         IN IF Refuses(allowed)
            THEN [events |-> head \o AttemptLog(cmd, rest, FALSE)
                                  \o <<Event("return", "Run", <<>>, FALSE)>>,
                  proc |-> NoProc, err |-> TRUE]
            ELSE LET timeoutCtx == RunContext(ctx, now, config)
                     logged     == head \o AttemptLog(cmd, rest, TRUE)
                 IN IF starts /\ ~Expired(timeoutCtx, now)
                    THEN [events |-> Append(logged, Event("launch", cmd, rest, TRUE)),
                          proc |-> [running |-> TRUE, cmd |-> cmd,
                                    env |-> CommandEnv(runner),
                                    dir |-> CommandDir(runner),
                                    ctx |-> timeoutCtx, started |-> now],
                          err |-> FALSE]
                    ELSE [events |-> logged \o <<Event("LogErrorf", "", <<>>, FALSE),
                                                 Event("return", "Run", <<>>, FALSE)>>,
                          proc |-> NoProc, err |-> TRUE]

\* func (r *SafeRunner) Run, from the end of the process on (command.Run() returned).
RunExit(failed) ==
    IF failed
    THEN <<Event("LogErrorf", "", <<>>, FALSE), Event("return", "Run", <<>>, FALSE)>>
    ELSE <<Event("return", "Run", <<>>, TRUE)>>

\* The two conditions joined by && instead of ||.
ValidationFailedBoth(valid, verr) == ~valid /\ verr

\* if !valid || err != nil, on what validator.ValidateScript returned.
ValidationFailed(valid, verr) == ~valid \/ verr

\* func (r *SafeRunner) RunScript, up to runner.Run(ctx, prog).  valid, verr:
\* what ValidateScript returns; parses: whether parser.Parse succeeds.
\* interp.New is given options that cannot fail, so its error branch is left out.
RunScriptEntry(script, valid, verr, parses) ==
    LET enter == <<Event("RunScript", "", <<>>, TRUE),
                   Event("validate", "", <<>>, valid /\ ~verr)>>
    IN IF ValidationFailed(valid, verr)
       THEN [events |-> Append(enter, Event("return", "RunScript", <<>>, FALSE)),
             call |-> NoCall]
       ELSE IF ~parses
       THEN [events |-> enter \o <<Event("parse", "", <<>>, FALSE),
                                   Event("LogErrorf", "", <<>>, FALSE),
                                   Event("return", "RunScript", <<>>, FALSE)>>,
             call |-> NoCall]
       ELSE [events |-> Append(enter, Event("parse", "", <<>>, TRUE)),
             call |-> [kind |-> "RunScript",
                       ctx |-> ScriptContext(Background, now, config),
                       script |-> script, failed |-> FALSE,
                       start |-> now, env |-> InterpEnv(runner)]]

(***************************************************************************)
(* Initial states: nothing is constructed yet; a policy file is on disk.   *)
(***************************************************************************)
InitWith(files) ==
    /\ file \in files
    /\ stage = "start"
    /\ config = ZeroConfig
    /\ origin = "none"
    /\ runner = ZeroRunner
    /\ now = 0
    /\ call = NoCall
    /\ proc = NoProc
    /\ trace = <<>>
    /\ sinks = NoOutput

Init == InitWith(PolicyFiles)

InitConfig == InitWith(Files)

(***************************************************************************)
(* The policy's operations.                                                *)
(***************************************************************************)
NewDefaultConfig ==
    /\ stage = "start"
    /\ config' = DefaultConfig
    /\ origin' = "default"
    /\ stage' = "configured"
    /\ UNCHANGED <<file, runner, now, call, proc, trace, sinks>>

LoadConfigFromFile ==
    /\ stage = "start"
    /\ LET decoded == UnmarshalJSON(file)
       IN IF ~file.readable \/ decoded.err
          THEN /\ stage' = "failed"
               /\ UNCHANGED <<config, origin>>
          ELSE /\ stage' = "configured"
               /\ config' = decoded.value
               /\ origin' = "file"
    /\ UNCHANGED <<file, runner, now, call, proc, trace, sinks>>

\* No call is in flight and the caller holds no unread result.
Idle == call.kind = "none" /\ trace = <<>>

\* Called at startup or between calls, never while a call is in flight.
AddAllowedCommand(cmd) ==
    /\ stage \in {"configured", "ready"}
    /\ Idle
    /\ config' = AddAllowedCommandTo(config, cmd)
    /\ UNCHANGED <<file, stage, origin, runner, now, call, proc, trace, sinks>>

(***************************************************************************)
(* The runner's operations.                                                *)
(***************************************************************************)
New(dir, env) ==
    /\ stage = "configured"
    /\ stage' = "ready"
    /\ runner' = [WorkingDir |-> dir, RestrictedEnv |-> env]
    /\ UNCHANGED <<file, config, origin, now, call, proc, trace, sinks>>

\* A caller calls Run(context.Background(), args).
Run(args, starts) ==
    /\ stage = "ready"
    /\ Idle
    /\ LET r == RunEntry(Background, args, starts)
       IN /\ trace' = r.events
          /\ proc' = r.proc
          /\ call' = IF r.err THEN NoCall
                     ELSE [NoCall EXCEPT !.kind = "Run", !.start = now]
    /\ sinks' = NoOutput
    /\ UNCHANGED <<file, stage, config, origin, runner, now>>

\* A caller calls RunScript(context.Background(), script).
RunScript(script, valid, verr, parses) ==
    /\ stage = "ready"
    /\ Idle
    /\ LET r == RunScriptEntry(script, valid, verr, parses)
       IN /\ trace' = r.events
          /\ call' = r.call
    /\ sinks' = NoOutput
    /\ UNCHANGED <<file, stage, config, origin, runner, now, proc>>

\* A caller calls RunScriptFile(context.Background(), reader); reads: whether
\* io.ReadAll succeeds.
RunScriptFile(script, reads, valid, verr, parses) ==
    /\ stage = "ready"
    /\ Idle
    /\ IF ~reads
       THEN /\ trace' = <<Event("RunScriptFile", "", <<>>, TRUE),
                          Event("LogErrorf", "", <<>>, FALSE),
                          Event("return", "RunScriptFile", <<>>, FALSE)>>
            /\ call' = NoCall
       ELSE LET r == RunScriptEntry(script, valid, verr, parses)
                ret == IF r.call.kind = "none"
                       THEN <<Event("return", "RunScriptFile", <<>>, FALSE)>>
                       ELSE <<>>
            IN /\ trace' = <<Event("RunScriptFile", "", <<>>, TRUE)>> \o r.events \o ret
               /\ call' = [r.call EXCEPT !.kind =
                               IF @ = "RunScript" THEN "RunScriptFile" ELSE @]
    /\ sinks' = NoOutput
    /\ UNCHANGED <<file, stage, config, origin, runner, now, proc>>

InScript == call.kind \in {"RunScript", "RunScriptFile"}

\* The interpreter reaches a simple command and calls the exec hook, which is
\* r.Run(ctx, args) with the interpreter's context.
ExecHandler(starts) ==
    /\ InScript
    /\ ~proc.running
    /\ call.script # <<>>
    /\ LET r == RunEntry(call.ctx, Head(call.script), starts)
       IN /\ trace' = trace \o r.events
          /\ proc' = r.proc
          /\ call' = [call EXCEPT !.script = Tail(@), !.failed = r.err]
    /\ UNCHANGED <<file, stage, config, origin, runner, now, sinks>>

\* runner.Run(ctx, prog) returns: the script is over, or the interpreter stops
\* early on a failed command or on its expired context.
ScriptReturn ==
    /\ InScript
    /\ ~proc.running
    /\ call.script = <<>> \/ call.failed \/ Expired(call.ctx, now)
    /\ LET err == call.failed \/ call.script # <<>>
           ret == IF err
                  THEN <<Event("LogErrorf", "", <<>>, FALSE),
                         Event("return", "RunScript", <<>>, FALSE)>>
                  ELSE <<Event("return", "RunScript", <<>>, TRUE)>>
           outer == IF call.kind = "RunScriptFile"
                    THEN <<Event("return", "RunScriptFile", <<>>, ~err)>>
                    ELSE <<>>
       IN trace' = trace \o ret \o outer
    /\ call' = NoCall
    /\ UNCHANGED <<file, stage, config, origin, runner, now, proc, sinks>>

\* The caller has read the error the call returned and the output it delivered;
\* trace and sinks describe one call, and start empty for the next.
Collect ==
    /\ call.kind = "none"
    /\ trace # <<>>
    /\ trace' = <<>>
    /\ sinks' = NoOutput
    /\ UNCHANGED <<file, stage, config, origin, runner, now, call, proc>>

\* command.Stdout = r.stdout, command.Stderr = r.stderr: a byte the process
\* writes reaches the caller's writer.
Deliver(delivered, n) == delivered + n

ProcWrite(stream) ==
    /\ proc.running
    /\ sinks[stream] < MaxBytes
    /\ sinks' = [sinks EXCEPT ![stream] = Deliver(@, 1)]
    /\ UNCHANGED <<file, stage, config, origin, runner, now, call, proc, trace>>

\* interp.StdIO(nil, r.stdout, r.stderr): a builtin of the script writes a byte.
BuiltinWrite(stream) ==
    /\ InScript
    /\ ~proc.running
    /\ call.script # <<>>
    /\ sinks[stream] < MaxBytes
    /\ sinks' = [sinks EXCEPT ![stream] = Deliver(@, 1)]
    /\ UNCHANGED <<file, stage, config, origin, runner, now, call, proc, trace>>

\* command.Run() returns to Run, which returns to its caller: the top-level
\* caller, or the interpreter.
Returned(failed, killed) ==
    /\ trace' = trace \o (IF killed THEN <<Event("kill", proc.cmd, <<>>, FALSE)>> ELSE <<>>)
                      \o RunExit(failed)
    /\ proc' = NoProc
    /\ call' = IF call.kind = "Run" THEN NoCall ELSE [call EXCEPT !.failed = failed]

\* The process exits by itself, with status 0 or not.
ProcExit(status) ==
    /\ proc.running
    /\ Returned(status # 0, FALSE)
    /\ UNCHANGED <<file, stage, config, origin, runner, now, sinks>>

\* A second passes.  exec.CommandContext kills the process when its context
\* is done, and command.Run() returns the error.
Tick ==
    /\ now < MaxTime
    /\ now' = now + 1
    /\ IF proc.running /\ Expired(proc.ctx, now + 1)
       THEN Returned(TRUE, TRUE)
       ELSE UNCHANGED <<call, proc, trace>>
    /\ UNCHANGED <<file, stage, config, origin, runner, sinks>>

ConfigNext ==
    \/ NewDefaultConfig
    \/ LoadConfigFromFile
    \/ \E cmd \in Commands : AddAllowedCommand(cmd)

\* The calls, the processes they launch and the clock.
Next ==
    \/ NewDefaultConfig
    \/ LoadConfigFromFile
    \/ \E cmd \in Commands : AddAllowedCommand(cmd)
    \/ \E dir \in WorkingDirs, env \in RestrictedEnvs : New(dir, env)
    \/ \E args \in Vectors \cup {<<>>}, starts \in BOOLEAN : Run(args, starts)
    \/ \E script \in Scripts, valid \in BOOLEAN, verr \in BOOLEAN, parses \in BOOLEAN :
           RunScript(script, valid, verr, parses)
    \/ \E script \in Scripts, reads \in BOOLEAN, valid \in BOOLEAN, verr \in BOOLEAN,
          parses \in BOOLEAN :
           RunScriptFile(script, reads, valid, verr, parses)
    \/ \E starts \in BOOLEAN : ExecHandler(starts)
    \/ ScriptReturn
    \/ Collect
    \/ \E status \in {0, 1} : ProcExit(status)
    \/ Tick

\* The calls and the bytes they deliver, with the clock stopped.
OutputNext ==
    \/ NewDefaultConfig
    \/ LoadConfigFromFile
    \/ \E dir \in WorkingDirs, env \in RestrictedEnvs : New(dir, env)
    \/ \E args \in Vectors \cup {<<>>}, starts \in BOOLEAN : Run(args, starts)
    \/ \E script \in Scripts, valid \in BOOLEAN, verr \in BOOLEAN, parses \in BOOLEAN :
           RunScript(script, valid, verr, parses)
    \/ \E starts \in BOOLEAN : ExecHandler(starts)
    \/ ScriptReturn
    \/ Collect
    \/ \E stream \in Streams : ProcWrite(stream)
    \/ \E stream \in Streams : BuiltinWrite(stream)
    \/ \E status \in {0, 1} : ProcExit(status)

Spec == Init /\ [][Next]_vars

SpecConfig == InitConfig /\ [][ConfigNext]_vars

SpecOutput == Init /\ [][OutputNext]_vars

(***************************************************************************)
(* Reading the trace.                                                      *)
(***************************************************************************)
Last(seq) == seq[Len(seq)]

IsEvent(i, ev) == trace[i].ev = ev

IsReturn(i, fn) == trace[i].ev = "return" /\ trace[i].cmd = fn

\* Events j and i > j belong to one Run call: no Run is entered or left in between.
SameRun(j, i) ==
    /\ j < i
    /\ \A k \in (j + 1)..(i - 1) : ~IsEvent(k, "Run") /\ ~IsReturn(k, "Run")

\* The call of the trace is a script call.
ScriptTrace == trace # <<>> /\ trace[1].ev \in {"RunScript", "RunScriptFile"}

\* The call of the trace has returned.
CallReturned == trace # <<>> /\ call.kind = "none"

InDenyCommands(c, cmd) ==
    \E i \in DOMAIN c.DenyCommands : c.DenyCommands[i].Command = cmd

\* Directory dir lies under directory root.
IsUnder(dir, root) ==
    Len(root) <= Len(dir) /\ SubSeq(dir, 1, Len(root)) = root

NoDuplicates(c) ==
    \A i, j \in DOMAIN c.AllowCommands :
        c.AllowCommands[i].Command = c.AllowCommands[j].Command => i = j

(***************************************************************************)
(* C1.  Deny precedence: a command listed in denyCommands is decided       *)
(* 'denied' by the allow check even when allowCommands lists it too, and   *)
(* Run launches no process for it.                                         *)
(***************************************************************************)
C1_DenyPrecedence ==
    \A i \in DOMAIN trace :
        InDenyCommands(config, trace[i].cmd) =>
            /\ IsEvent(i, "check") => ~trace[i].ok
            /\ ~IsEvent(i, "launch")

(***************************************************************************)
(* C2.  In every Run call the allow check on args[0] comes before the      *)
(* launch; a denied command and an empty vector return an error and        *)
(* launch nothing; a process runs only as the last thing its call did.     *)
(***************************************************************************)
C2_CheckBeforeLaunch ==
    /\ \A i \in DOMAIN trace :
          IsEvent(i, "launch") =>
              \E j \in 1..(i - 1) :
                  /\ IsEvent(j, "check")
                  /\ trace[j].cmd = trace[i].cmd
                  /\ trace[j].ok
                  /\ IsCommandAllowed(config, trace[j].cmd)
                  /\ SameRun(j, i)
    /\ \A j \in DOMAIN trace :
          IsEvent(j, "check") /\ ~IsCommandAllowed(config, trace[j].cmd) =>
              \E r \in (j + 1)..Len(trace) :
                  /\ IsReturn(r, "Run") /\ ~trace[r].ok
                  /\ \A k \in (j + 1)..(r - 1) :
                        ~IsEvent(k, "launch") /\ ~IsEvent(k, "Run")
    /\ \A j \in DOMAIN trace :
          IsEvent(j, "Run") /\ trace[j].cmd = "" =>
              j < Len(trace) /\ IsReturn(j + 1, "Run") /\ ~trace[j + 1].ok
    /\ proc.running <=>
          /\ trace # <<>>
          /\ Last(trace).ev = "launch"
          /\ Last(trace).cmd = proc.cmd

\* A direct Run of an allowed command has checked, logged and launched it.
C2_Witness ==
    /\ call.kind = "Run"
    /\ proc.running
    /\ Len(trace) = 4
    /\ IsEvent(2, "check") /\ trace[2].ok
    /\ IsEvent(4, "launch")

(***************************************************************************)
(* C3.  In a RunScript or RunScriptFile call a process is launched only    *)
(* after ValidateScript returned valid with no error and the script        *)
(* parsed, and only for a command the allow check of Run accepted at that  *)
(* launch; a failed validation or a parse error launches nothing.          *)
(***************************************************************************)
C3_ScriptLaunchesValidated ==
    ScriptTrace =>
        /\ \A i \in DOMAIN trace :
              IsEvent(i, "launch") =>
                  \E v \in 1..(i - 1) :
                      /\ IsEvent(v, "validate") /\ trace[v].ok
                      /\ \E p \in (v + 1)..(i - 1) :
                            /\ IsEvent(p, "parse") /\ trace[p].ok
                            /\ \E j \in (p + 1)..(i - 1) :
                                  /\ IsEvent(j, "check") /\ trace[j].ok
                                  /\ trace[j].cmd = trace[i].cmd
                                  /\ IsCommandAllowed(config, trace[i].cmd)
                                  /\ SameRun(j, i)
        /\ \A v \in DOMAIN trace :
              (IsEvent(v, "validate") \/ IsEvent(v, "parse")) /\ ~trace[v].ok =>
                  /\ \A i \in DOMAIN trace : ~IsEvent(i, "launch") /\ ~IsEvent(i, "Run")
                  /\ call.kind = "none"
                  /\ ~proc.running
                  /\ Last(trace).ev = "return" /\ ~Last(trace).ok
        /\ proc.running => IsCommandAllowed(config, proc.cmd)

\* A validated script launched its first command, and the exec hook refused
\* the second one.
C3_Witness ==
    /\ ScriptTrace
    /\ \E i \in DOMAIN trace :
          /\ IsEvent(i, "launch")
          /\ \E j \in (i + 1)..Len(trace) : IsEvent(j, "check") /\ ~trace[j].ok

C5_SingleScriptDeadline ==
    /\ InScript =>
          /\ config.MaxExecutionTime > 0
          /\ call.ctx = [hasDeadline |-> TRUE,
                         deadline |-> call.start + config.MaxExecutionTime]
          /\ proc.running =>
                /\ now < call.start + config.MaxExecutionTime
                /\ proc.ctx.hasDeadline
                /\ proc.ctx.deadline <= call.start + config.MaxExecutionTime
    /\ ScriptTrace /\ (\E i \in DOMAIN trace : IsEvent(i, "kill")) =>
          /\ ~(InScript /\ proc.running)
          /\ InScript => call.failed
          /\ CallReturned => ~Last(trace).ok

\* The second command of a script, started after the first, is killed at the
\* script's deadline, before its own timeout would have run out.
C5_Witness ==
    /\ InScript
    /\ now = call.start + config.MaxExecutionTime
    /\ \E i \in DOMAIN trace :
          /\ IsEvent(i, "launch")
          /\ \E j \in (i + 1)..Len(trace) :
                /\ IsReturn(j, "Run") /\ trace[j].ok
                /\ \E k \in (j + 1)..Len(trace) : IsEvent(k, "kill")

(***************************************************************************)
(* C6.  With allowedDirectories not empty, no process is launched with a   *)
(* configured working directory outside the allowed directories.           *)
(***************************************************************************)
C6_WorkingDirConfined ==
    proc.running /\ config.AllowedDirectories # <<>> /\ runner.WorkingDir # <<>> =>
        \E d \in DOMAIN config.AllowedDirectories :
            IsUnder(proc.dir, config.AllowedDirectories[d])

(***************************************************************************)
(* C7.  A launched process, and the interpreter of a script, receive only  *)
(* the variables of the policy's restricted environment, also when that    *)
(* set is empty.                                                           *)
(***************************************************************************)
C7_RestrictedEnvOnly ==
    /\ proc.running => proc.env \subseteq runner.RestrictedEnv
    /\ InScript => call.env \subseteq runner.RestrictedEnv

(***************************************************************************)
(* C8.  The bytes a call delivers to a sink never exceed maxOutputSize.    *)
(***************************************************************************)
C8_OutputCapped ==
    stage = "ready" => \A stream \in Streams : sinks[stream] <= config.MaxOutputSize

(***************************************************************************)
(* C9.  A policy decoded from a file has maxExecutionTime equal to the     *)
(* given value when that is positive and 30 when it is absent, zero or     *)
(* negative, and maxOutputSize equal to the given value when positive and  *)
(* 51200 otherwise; every policy in use has both limits positive.          *)
(***************************************************************************)
C9_NumericDefaults ==
    /\ origin = "file" =>
          /\ config.MaxExecutionTime =
                IF file.maxExecutionTime # Absent /\ file.maxExecutionTime[1] > 0
                THEN file.maxExecutionTime[1] ELSE 30
          /\ config.MaxOutputSize =
                IF file.maxOutputSize # Absent /\ file.maxOutputSize[1] > 0
                THEN file.maxOutputSize[1] ELSE 51200
    /\ origin # "none" => config.MaxExecutionTime > 0 /\ config.MaxOutputSize > 0

\* A file with a negative time and a positive size has been loaded.
C9_Witness ==
    /\ origin = "file"
    /\ file.maxExecutionTime = Some(-1) /\ config.MaxExecutionTime = 30
    /\ file.maxOutputSize = Some(2) /\ config.MaxOutputSize = 2

(***************************************************************************)
(* C10.  AddAllowedCommand(c) makes c allowed; it appends the one rule     *)
(* {command: c} when c was not allowed and changes nothing when it was;    *)
(* the existing rules, denyCommands and the other fields stay as they      *)
(* are; an allow list without duplicate names stays without.               *)
(***************************************************************************)
C10_AddAllowedCommand ==
    [][\A c \in Commands :
          AddAllowedCommand(c) =>
              /\ IsCommandAllowed(config', c)
              /\ IsCommandAllowed(config, c) => config' = config
              /\ ~IsCommandAllowed(config, c) =>
                    config'.AllowCommands =
                        Append(config.AllowCommands,
                               [Command |-> c, SubCommands |-> <<>>,
                                DenySubCommands |-> <<>>])
              /\ [config' EXCEPT !.AllowCommands = <<>>]
                    = [config EXCEPT !.AllowCommands = <<>>]
              /\ NoDuplicates(config) => NoDuplicates(config')]_vars

\* rm was added to a loaded policy that held a rule with subcommands.
C10_Witness ==
    /\ origin = "file"
    /\ Len(config.AllowCommands) = 2
    /\ config.AllowCommands[1] = AllowCommand("ls", <<"-l">>, <<>>)
    /\ config.AllowCommands[2] = AllowCommand("rm", <<>>, <<>>)
    /\ file.allowCommands = Some(<<AllowObject("ls", <<"-l">>, <<>>)>>)

====
